---- MODULE Spec2Model ----
(***************************************************************************)
(* Redux store of the investment dashboard frontend: the three slices      *)
(* market, portfolio and chat (createSlice + createAsyncThunk), the        *)
(* thunks' transport calls in flight, and the page handlers that dispatch  *)
(* them.                                                                   *)
(*                                                                         *)
(* Encoding of JavaScript values:                                          *)
(*   - null / undefined is Null (the empty tuple), a present value v of a  *)
(*     nullable field is Some(v) (a one-element tuple);                    *)
(*   - a string is a sequence of non-empty segments, the string being the  *)
(*     concatenation of its segments; whitespace is the segment " ";       *)
(*   - an array is a sequence.                                             *)
(***************************************************************************)
EXTENDS Integers, Sequences, FiniteSets, TLC

VARIABLES market, portfolio, chat, inflight, nextId, last, location, effects,
          backend, call

vars ==
  <<market, portfolio, chat, inflight, nextId, last, location, effects, backend, call>>

(* The router's page and the runs of its effect that are scheduled *)
page == <<location, effects>>

(* What the store and its pages never change: the portfolio list the       *)
(* backend holds and the call of a database helper                         *)
outside == <<backend, call>>

(* Bound of the exploration: the number of actions dispatched to the store, *)
(* thunks and plain actions alike; every thunk dispatched is also resolved. *)
MaxDispatches == 2

(* Bound of the exploration of the Dashboard on its own: the number of     *)
(* requests its effect makes.                                              *)
MaxDashboardRequests == 11

(* Bound of the exploration of the application: the number of requests     *)
(* the pages make; a handler or effect runs only if all its requests fit.  *)
MaxRequests == 4

Null == <<>>
Some(v) == <<v>>

(***************************************************************************)
(* Strings                                                                 *)
(***************************************************************************)
IsSpace(seg) == seg = " "

RECURSIVE TrimStart(_)
TrimStart(s) == IF s # <<>> /\ IsSpace(Head(s)) THEN TrimStart(Tail(s)) ELSE s

RECURSIVE TrimEnd(_)
TrimEnd(s) ==
  IF s # <<>> /\ IsSpace(s[Len(s)]) THEN TrimEnd(SubSeq(s, 1, Len(s) - 1)) ELSE s

Trim(s) == TrimEnd(TrimStart(s))

(* JavaScript truthiness of a string: every string but the empty one *)
Truthy(s) == s # <<>>

(***************************************************************************)
(* Transport outcomes                                                      *)
(***************************************************************************)
(* error.response?.data?.detail of a failed request: undefined, "" or text *)
Details == {Null, Some(<<>>), Some(<<"timeout">>)}

(* Faulty variant: detail ?? fallback, which keeps an empty detail *)
RejectValue_nullish(detail, fallback) ==
  IF detail # Null THEN detail[1] ELSE fallback

(* detail || fallback *)
RejectValue(detail, fallback) ==
  IF detail # Null /\ Truthy(detail[1]) THEN detail[1] ELSE fallback

MarketDataPayloads == {Some("md1"), Some("md2")}
NewsPayloads == {Some("news1"), Some("news2")}
AnalysisPayloads == {Some("an1"), Some("an2")}

(***************************************************************************)
(* marketSlice                                                             *)
(***************************************************************************)
marketInitialState ==
  [marketData |-> Null, marketNews |-> Null, marketAnalysis |-> Null,
   loading |-> FALSE, error |-> Null]

clearMarketError(state) == [state EXCEPT !.error = Null]

(* Faulty variant: the pending case also drops the data fetched before *)
fetchMarketData_pending_dropsData(state) ==
  [state EXCEPT !.loading = TRUE, !.error = Null, !.marketData = Null]

fetchMarketData_pending(state) == [state EXCEPT !.loading = TRUE, !.error = Null]

(* Faulty variant: the payload is stored only while the field is empty *)
fetchMarketData_fulfilled_keepsFirst(state, action) ==
  [state EXCEPT
     !.loading = FALSE,
     !.marketData = IF state.marketData = Null THEN action.payload ELSE state.marketData]

fetchMarketData_fulfilled(state, action) ==
  [state EXCEPT !.loading = FALSE, !.marketData = action.payload]

(* Faulty variant: the rejected case also drops the data fetched before *)
fetchMarketData_rejected_dropsData(state, action) ==
  [state EXCEPT !.loading = FALSE, !.error = Some(action.payload), !.marketData = Null]

fetchMarketData_rejected(state, action) ==
  [state EXCEPT !.loading = FALSE, !.error = Some(action.payload)]

fetchMarketNews_pending(state) == [state EXCEPT !.loading = TRUE, !.error = Null]

(* Faulty variant: the fulfilled case also clears the error *)
fetchMarketNews_fulfilled_clearsError(state, action) ==
  [state EXCEPT !.loading = FALSE, !.marketNews = action.payload, !.error = Null]

fetchMarketNews_fulfilled(state, action) ==
  [state EXCEPT !.loading = FALSE, !.marketNews = action.payload]

fetchMarketNews_rejected(state, action) ==
  [state EXCEPT !.loading = FALSE, !.error = Some(action.payload)]

fetchMarketAnalysis_pending(state) == [state EXCEPT !.loading = TRUE, !.error = Null]

fetchMarketAnalysis_fulfilled(state, action) ==
  [state EXCEPT !.loading = FALSE, !.marketAnalysis = action.payload]

fetchMarketAnalysis_rejected(state, action) ==
  [state EXCEPT !.loading = FALSE, !.error = Some(action.payload)]

marketReducer(state, action) ==
  CASE action.type = "market/clearMarketError" -> clearMarketError(state)
    [] action.type = "market/fetchMarketData/pending" -> fetchMarketData_pending(state)
    [] action.type = "market/fetchMarketData/fulfilled" -> fetchMarketData_fulfilled(state, action)
    [] action.type = "market/fetchMarketData/rejected" -> fetchMarketData_rejected(state, action)
    [] action.type = "market/fetchMarketNews/pending" -> fetchMarketNews_pending(state)
    [] action.type = "market/fetchMarketNews/fulfilled" -> fetchMarketNews_fulfilled(state, action)
    [] action.type = "market/fetchMarketNews/rejected" -> fetchMarketNews_rejected(state, action)
    [] action.type = "market/fetchMarketAnalysis/pending" -> fetchMarketAnalysis_pending(state)
    [] action.type = "market/fetchMarketAnalysis/fulfilled" -> fetchMarketAnalysis_fulfilled(state, action)
    [] action.type = "market/fetchMarketAnalysis/rejected" -> fetchMarketAnalysis_rejected(state, action)
    [] OTHER -> state

(***************************************************************************)
(* portfolioSlice                                                          *)
(***************************************************************************)
PortfolioListPayloads == {<<>>, <<"pfA">>}
PortfolioPayloads == {Some("pfA"), Some("pfB")}
SummaryPayloads == {Some("sumA"), Some("sumB")}
HistoryPayloads == {<<"h1">>, <<"h1", "h2">>}
RiskPayloads == {Some("risk1"), Some("risk2")}
OptimizationPayloads == {Some("opt1"), Some("opt2")}
TradePayloads == {Some("trade1")}

portfolioInitialState ==
  [portfolios |-> <<>>, currentPortfolio |-> Null, portfolioSummary |-> Null,
   portfolioHistory |-> <<>>, riskAnalysis |-> Null,
   optimizationRecommendations |-> Null, loading |-> FALSE, error |-> Null]

setCurrentPortfolio(state, action) == [state EXCEPT !.currentPortfolio = action.payload]

clearPortfolioError(state) == [state EXCEPT !.error = Null]

fetchPortfolios_pending(state) == [state EXCEPT !.loading = TRUE, !.error = Null]

(* Faulty variant: the fulfilled case merges the payload into the list *)
fetchPortfolios_fulfilled_merges(state, action) ==
  [state EXCEPT !.loading = FALSE, !.portfolios = state.portfolios \o action.payload]

fetchPortfolios_fulfilled(state, action) ==
  [state EXCEPT !.loading = FALSE, !.portfolios = action.payload]

fetchPortfolios_rejected(state, action) ==
  [state EXCEPT !.loading = FALSE, !.error = Some(action.payload)]

fetchPortfolio_pending(state) == [state EXCEPT !.loading = TRUE, !.error = Null]

fetchPortfolio_fulfilled(state, action) ==
  [state EXCEPT !.loading = FALSE, !.currentPortfolio = action.payload]

fetchPortfolio_rejected(state, action) ==
  [state EXCEPT !.loading = FALSE, !.error = Some(action.payload)]

fetchPortfolioSummary_pending(state) == [state EXCEPT !.loading = TRUE, !.error = Null]

fetchPortfolioSummary_fulfilled(state, action) ==
  [state EXCEPT !.loading = FALSE, !.portfolioSummary = action.payload]

(* Faulty variant: the rejected case leaves the busy flag up *)
fetchPortfolioSummary_rejected_keepsLoading(state, action) ==
  [state EXCEPT !.error = Some(action.payload)]

fetchPortfolioSummary_rejected(state, action) ==
  [state EXCEPT !.loading = FALSE, !.error = Some(action.payload)]

fetchPortfolioHistory_pending(state) == [state EXCEPT !.loading = TRUE, !.error = Null]

(* Faulty variant: the fulfilled case appends the payload to the history *)
fetchPortfolioHistory_fulfilled_appends(state, action) ==
  [state EXCEPT
     !.loading = FALSE,
     !.portfolioHistory = state.portfolioHistory \o action.payload]

fetchPortfolioHistory_fulfilled(state, action) ==
  [state EXCEPT !.loading = FALSE, !.portfolioHistory = action.payload]

fetchPortfolioHistory_rejected(state, action) ==
  [state EXCEPT !.loading = FALSE, !.error = Some(action.payload)]

analyzePortfolioRisk_pending(state) == [state EXCEPT !.loading = TRUE, !.error = Null]

(* Faulty variant: a new risk analysis drops the recommendations *)
analyzePortfolioRisk_fulfilled_dropsRecommendations(state, action) ==
  [state EXCEPT !.loading = FALSE, !.riskAnalysis = action.payload,
                !.optimizationRecommendations = Null]

analyzePortfolioRisk_fulfilled(state, action) ==
  [state EXCEPT !.loading = FALSE, !.riskAnalysis = action.payload]

analyzePortfolioRisk_rejected(state, action) ==
  [state EXCEPT !.loading = FALSE, !.error = Some(action.payload)]

optimizePortfolio_pending(state) == [state EXCEPT !.loading = TRUE, !.error = Null]

optimizePortfolio_fulfilled(state, action) ==
  [state EXCEPT !.loading = FALSE, !.optimizationRecommendations = action.payload]

optimizePortfolio_rejected(state, action) ==
  [state EXCEPT !.loading = FALSE, !.error = Some(action.payload)]

executeTrade_pending(state) == [state EXCEPT !.loading = TRUE, !.error = Null]

(* Faulty variant: a successful trade drops the cached summary *)
executeTrade_fulfilled_invalidates(state) ==
  [state EXCEPT !.loading = FALSE, !.portfolioSummary = Null]

executeTrade_fulfilled(state) == [state EXCEPT !.loading = FALSE]

executeTrade_rejected(state, action) ==
  [state EXCEPT !.loading = FALSE, !.error = Some(action.payload)]

portfolioReducer(state, action) ==
  CASE action.type = "portfolio/setCurrentPortfolio" -> setCurrentPortfolio(state, action)
    [] action.type = "portfolio/clearPortfolioError" -> clearPortfolioError(state)
    [] action.type = "portfolio/fetchPortfolios/pending" -> fetchPortfolios_pending(state)
    [] action.type = "portfolio/fetchPortfolios/fulfilled" -> fetchPortfolios_fulfilled(state, action)
    [] action.type = "portfolio/fetchPortfolios/rejected" -> fetchPortfolios_rejected(state, action)
    [] action.type = "portfolio/fetchPortfolio/pending" -> fetchPortfolio_pending(state)
    [] action.type = "portfolio/fetchPortfolio/fulfilled" -> fetchPortfolio_fulfilled(state, action)
    [] action.type = "portfolio/fetchPortfolio/rejected" -> fetchPortfolio_rejected(state, action)
    [] action.type = "portfolio/fetchPortfolioSummary/pending" -> fetchPortfolioSummary_pending(state)
    [] action.type = "portfolio/fetchPortfolioSummary/fulfilled" -> fetchPortfolioSummary_fulfilled(state, action)
    [] action.type = "portfolio/fetchPortfolioSummary/rejected" -> fetchPortfolioSummary_rejected(state, action)
    [] action.type = "portfolio/fetchPortfolioHistory/pending" -> fetchPortfolioHistory_pending(state)
    [] action.type = "portfolio/fetchPortfolioHistory/fulfilled" -> fetchPortfolioHistory_fulfilled(state, action)
    [] action.type = "portfolio/fetchPortfolioHistory/rejected" -> fetchPortfolioHistory_rejected(state, action)
    [] action.type = "portfolio/analyzePortfolioRisk/pending" -> analyzePortfolioRisk_pending(state)
    [] action.type = "portfolio/analyzePortfolioRisk/fulfilled" -> analyzePortfolioRisk_fulfilled(state, action)
    [] action.type = "portfolio/analyzePortfolioRisk/rejected" -> analyzePortfolioRisk_rejected(state, action)
    [] action.type = "portfolio/optimizePortfolio/pending" -> optimizePortfolio_pending(state)
    [] action.type = "portfolio/optimizePortfolio/fulfilled" -> optimizePortfolio_fulfilled(state, action)
    [] action.type = "portfolio/optimizePortfolio/rejected" -> optimizePortfolio_rejected(state, action)
    [] action.type = "portfolio/executeTrade/pending" -> executeTrade_pending(state)
    [] action.type = "portfolio/executeTrade/fulfilled" -> executeTrade_fulfilled(state)
    [] action.type = "portfolio/executeTrade/rejected" -> executeTrade_rejected(state, action)
    [] OTHER -> state

(***************************************************************************)
(* chatSlice                                                               *)
(***************************************************************************)
(* ChatResponse: response text and the optional actions_taken array *)
ChatResponses ==
  {[response |-> <<"Hello">>, actions_taken |-> Null],
   [response |-> <<"Done">>, actions_taken |-> Some(<<"rebalance">>)]}

ErrorPrefix == <<"Sorry, I encountered an error: ">>

chatInitialState ==
  [messages |-> <<>>, loading |-> FALSE, error |-> Null, actions |-> <<>>]

(* Faulty variant: the message is put in front of the transcript *)
addMessage_prepends(state, action) ==
  [state EXCEPT !.messages = <<action.payload>> \o state.messages]

addMessage(state, action) ==
  [state EXCEPT !.messages = Append(state.messages, action.payload)]

clearChat(state) == [state EXCEPT !.messages = <<>>, !.actions = <<>>]

clearChatError(state) == [state EXCEPT !.error = Null]

(* Faulty variant: the pending case does not raise the busy flag *)
sendChatMessage_pending_notBusy(state) == [state EXCEPT !.error = Null]

sendChatMessage_pending(state) == [state EXCEPT !.loading = TRUE, !.error = Null]

(* Faulty variant: the response's actions replace the list *)
sendChatMessage_fulfilled_replacesActions(state, action) ==
  [state EXCEPT
     !.loading = FALSE,
     !.messages = Append(state.messages,
                         [role |-> "assistant", content |-> action.payload.response]),
     !.actions = IF action.payload.actions_taken # Null
                 THEN action.payload.actions_taken[1]
                 ELSE state.actions]

(* Faulty variant: the response replaces the transcript's last message *)
sendChatMessage_fulfilled_replacesLast(state, action) ==
  [state EXCEPT
     !.loading = FALSE,
     !.messages = SubSeq(state.messages, 1, Len(state.messages) - 1) \o
                    <<[role |-> "assistant", content |-> action.payload.response]>>,
     !.actions = IF action.payload.actions_taken # Null
                 THEN state.actions \o action.payload.actions_taken[1]
                 ELSE state.actions]

sendChatMessage_fulfilled(state, action) ==
  [state EXCEPT
     !.loading = FALSE,
     !.messages = Append(state.messages,
                         [role |-> "assistant", content |-> action.payload.response]),
     !.actions = IF action.payload.actions_taken # Null
                 THEN state.actions \o action.payload.actions_taken[1]
                 ELSE state.actions]

(* Faulty variant: the rejected case appends the bare reason *)
sendChatMessage_rejected_bareReason(state, action) ==
  [state EXCEPT
     !.loading = FALSE,
     !.error = Some(action.payload),
     !.messages = Append(state.messages,
                         [role |-> "assistant", content |-> action.payload])]

(* Faulty variant: a synthetic error message at the end of the transcript  *)
(* is replaced by the new one instead of being followed by it              *)
sendChatMessage_rejected_replacesError(state, action) ==
  LET message == [role |-> "assistant", content |-> ErrorPrefix \o action.payload]
      n == Len(state.messages)
      replaces == /\ n > 0
                  /\ state.messages[n].role = "assistant"
                  /\ state.messages[n].content # <<>>
                  /\ state.messages[n].content[1] = ErrorPrefix[1]
  IN [state EXCEPT
        !.loading = FALSE,
        !.error = Some(action.payload),
        !.messages = IF replaces THEN [state.messages EXCEPT ![n] = message]
                     ELSE Append(state.messages, message)]

sendChatMessage_rejected(state, action) ==
  [state EXCEPT
     !.loading = FALSE,
     !.error = Some(action.payload),
     !.messages = Append(state.messages,
                         [role |-> "assistant",
                          content |-> ErrorPrefix \o action.payload])]

chatReducer(state, action) ==
  CASE action.type = "chat/addMessage" -> addMessage(state, action)
    [] action.type = "chat/clearChat" -> clearChat(state)
    [] action.type = "chat/clearChatError" -> clearChatError(state)
    [] action.type = "chat/sendMessage/pending" -> sendChatMessage_pending(state)
    [] action.type = "chat/sendMessage/fulfilled" -> sendChatMessage_fulfilled(state, action)
    [] action.type = "chat/sendMessage/rejected" -> sendChatMessage_rejected(state, action)
    [] OTHER -> state

(***************************************************************************)
(* Async thunks (createAsyncThunk): the action type prefix, the slice and  *)
(* the fallback message of the catch branch                                *)
(***************************************************************************)
fetchMarketData ==
  [name |-> "fetchMarketData", slice |-> "market", typePrefix |-> "market/fetchMarketData",
   fallback |-> <<"Failed to fetch market data">>]

fetchMarketNews ==
  [name |-> "fetchMarketNews", slice |-> "market", typePrefix |-> "market/fetchMarketNews",
   fallback |-> <<"Failed to fetch market news">>]

fetchMarketAnalysis ==
  [name |-> "fetchMarketAnalysis", slice |-> "market", typePrefix |-> "market/fetchMarketAnalysis",
   fallback |-> <<"Failed to fetch market analysis">>]

fetchPortfolios ==
  [name |-> "fetchPortfolios", slice |-> "portfolio", typePrefix |-> "portfolio/fetchPortfolios",
   fallback |-> <<"Failed to fetch portfolios">>]

fetchPortfolio ==
  [name |-> "fetchPortfolio", slice |-> "portfolio", typePrefix |-> "portfolio/fetchPortfolio",
   fallback |-> <<"Failed to fetch portfolio">>]

fetchPortfolioSummary ==
  [name |-> "fetchPortfolioSummary", slice |-> "portfolio", typePrefix |-> "portfolio/fetchPortfolioSummary",
   fallback |-> <<"Failed to fetch portfolio summary">>]

fetchPortfolioHistory ==
  [name |-> "fetchPortfolioHistory", slice |-> "portfolio", typePrefix |-> "portfolio/fetchPortfolioHistory",
   fallback |-> <<"Failed to fetch portfolio history">>]

analyzePortfolioRisk ==
  [name |-> "analyzePortfolioRisk", slice |-> "portfolio", typePrefix |-> "portfolio/analyzePortfolioRisk",
   fallback |-> <<"Failed to analyze portfolio risk">>]

optimizePortfolio ==
  [name |-> "optimizePortfolio", slice |-> "portfolio", typePrefix |-> "portfolio/optimizePortfolio",
   fallback |-> <<"Failed to optimize portfolio">>]

executeTrade ==
  [name |-> "executeTrade", slice |-> "portfolio", typePrefix |-> "portfolio/executeTrade",
   fallback |-> <<"Failed to execute trade">>]

sendChatMessage ==
  [name |-> "sendChatMessage", slice |-> "chat", typePrefix |-> "chat/sendMessage",
   fallback |-> <<"Failed to send message">>]

MarketThunks == {fetchMarketData, fetchMarketNews, fetchMarketAnalysis}

PortfolioFetchThunks ==
  {fetchPortfolios, fetchPortfolio, fetchPortfolioSummary, fetchPortfolioHistory,
   analyzePortfolioRisk, optimizePortfolio}

PortfolioThunks == PortfolioFetchThunks \cup {executeTrade}

Thunks == MarketThunks \cup PortfolioThunks \cup {sendChatMessage}

(* response.data of a successful call of the thunk's service method *)
MarketResponses(thunk) ==
  CASE thunk = fetchMarketData -> MarketDataPayloads
    [] thunk = fetchMarketNews -> NewsPayloads
    [] thunk = fetchMarketAnalysis -> AnalysisPayloads

PortfolioResponses(thunk) ==
  CASE thunk = fetchPortfolios -> PortfolioListPayloads
    [] thunk = fetchPortfolio -> PortfolioPayloads
    [] thunk = fetchPortfolioSummary -> SummaryPayloads
    [] thunk = fetchPortfolioHistory -> HistoryPayloads
    [] thunk = analyzePortfolioRisk -> RiskPayloads
    [] thunk = optimizePortfolio -> OptimizationPayloads
    [] thunk = executeTrade -> TradePayloads

Responses(thunk) ==
  CASE thunk \in MarketThunks -> MarketResponses(thunk)
    [] thunk \in PortfolioThunks -> PortfolioResponses(thunk)
    [] thunk = sendChatMessage -> ChatResponses

(***************************************************************************)
(* The store: combineReducers hands every action to the three reducers     *)
(***************************************************************************)
(* Faulty variant: the market slice shows the portfolio slice's busy flag *)
rootReducer_sharedLoading(state, action) ==
  [portfolio |-> portfolioReducer(state.portfolio, action),
   market |-> [marketReducer(state.market, action) EXCEPT
                 !.loading = portfolioReducer(state.portfolio, action).loading],
   chat |-> chatReducer(state.chat, action)]

rootReducer(state, action) ==
  [portfolio |-> portfolioReducer(state.portfolio, action),
   market |-> marketReducer(state.market, action),
   chat |-> chatReducer(state.chat, action)]

getState == [portfolio |-> portfolio, market |-> market, chat |-> chat]

SetState(state) ==
  /\ portfolio' = state.portfolio
  /\ market' = state.market
  /\ chat' = state.chat

PendingAction(thunk) == [type |-> thunk.typePrefix \o "/pending"]

FulfilledAction(thunk, payload) ==
  [type |-> thunk.typePrefix \o "/fulfilled", payload |-> payload]

RejectedAction(thunk, detail) ==
  [type |-> thunk.typePrefix \o "/rejected",
   payload |-> RejectValue(detail, thunk.fallback)]

Init ==
  /\ market = marketInitialState
  /\ portfolio = portfolioInitialState
  /\ chat = chatInitialState
  /\ inflight = {}
  /\ nextId = 1
  /\ last = [kind |-> "init", thunk |-> "", id |-> 0, value |-> Null]
  /\ location = ""
  /\ effects = <<>>
  /\ backend = <<>>
  /\ call = [state |-> "idle"]

(* Faulty variant: a thunk already in flight is not requested again *)
Dispatch_deduplicates(thunk) ==
  /\ nextId <= MaxDispatches
  /\ SetState(rootReducer(getState, PendingAction(thunk)))
  /\ inflight' = IF \E op \in inflight : op.thunk = thunk
                 THEN inflight
                 ELSE inflight \cup {[id |-> nextId, thunk |-> thunk, arg |-> Null]}
  /\ nextId' = nextId + 1
  /\ last' = [kind |-> "pending", thunk |-> thunk.name, id |-> nextId, value |-> Null]
  /\ UNCHANGED <<page, outside>>

(* store.dispatch(thunk(arg)) of a market or portfolio thunk: the pending  *)
(* action is reduced at once and the transport call is left in flight;    *)
(* the parameters of these thunks are opaque to the slices.               *)
Dispatch(thunk) ==
  /\ nextId <= MaxDispatches
  /\ SetState(rootReducer(getState, PendingAction(thunk)))
  /\ inflight' = inflight \cup {[id |-> nextId, thunk |-> thunk, arg |-> Null]}
  /\ nextId' = nextId + 1
  /\ last' = [kind |-> "pending", thunk |-> thunk.name, id |-> nextId, value |-> Null]
  /\ UNCHANGED <<page, outside>>

(* last is the history of the most recent store action: its kind          *)
(* (pending, fulfilled, rejected, or the type of a plain action), the      *)
(* thunk and the number of the dispatch it belongs to, and the value it    *)
(* carried (the payload of a fetch, the response text of a chat send, the  *)
(* message of a rejection).                                                *)
Logged(thunk, payload) == IF thunk = sendChatMessage THEN payload.response ELSE payload

(* Faulty variant: the settled operation is left in flight *)
Fulfill_keepsInFlight(op, payload) ==
  /\ op \in inflight
  /\ SetState(rootReducer(getState, FulfilledAction(op.thunk, payload)))
  /\ inflight' = inflight
  /\ last' = [kind |-> "fulfilled", thunk |-> op.thunk.name, id |-> op.id,
              value |-> Logged(op.thunk, payload)]
  /\ UNCHANGED <<nextId, page, outside>>

(* The transport call of op returns payload: the fulfilled action *)
Fulfill(op, payload) ==
  /\ op \in inflight
  /\ SetState(rootReducer(getState, FulfilledAction(op.thunk, payload)))
  /\ inflight' = inflight \ {op}
  /\ last' = [kind |-> "fulfilled", thunk |-> op.thunk.name, id |-> op.id,
              value |-> Logged(op.thunk, payload)]
  /\ UNCHANGED <<nextId, page, outside>>

(* The transport call of op throws: rejectWithValue(detail || fallback) *)
Reject(op, detail) ==
  /\ op \in inflight
  /\ SetState(rootReducer(getState, RejectedAction(op.thunk, detail)))
  /\ inflight' = inflight \ {op}
  /\ last' = [kind |-> "rejected", thunk |-> op.thunk.name, id |-> op.id,
              value |-> RejectValue(detail, op.thunk.fallback)]
  /\ UNCHANGED <<nextId, page, outside>>

(* A plain action of a slice *)
Reduce(action) ==
  /\ nextId <= MaxDispatches
  /\ SetState(rootReducer(getState, action))
  /\ UNCHANGED inflight
  /\ nextId' = nextId + 1
  /\ last' = [kind |-> action.type, thunk |-> "", id |-> nextId, value |-> Null]
  /\ UNCHANGED <<page, outside>>

ClearMarketError == Reduce([type |-> "market/clearMarketError"])

CurrentPortfolioPayloads == {Null, Some("pfA")}

SetCurrentPortfolio(p) == Reduce([type |-> "portfolio/setCurrentPortfolio", payload |-> p])

ClearPortfolioError == Reduce([type |-> "portfolio/clearPortfolioError"])

ClearChatError == Reduce([type |-> "chat/clearChatError"])

(***************************************************************************)
(* Chat: the slice's action creator and thunk, dispatched on their own     *)
(***************************************************************************)
MessagePayloads ==
  {[role |-> "user", content |-> <<"Hi">>],
   [role |-> "assistant", content |-> <<"Hello">>]}

(* store.dispatch(addMessage(message)) *)
DispatchAddMessage(message) ==
  Reduce([type |-> "chat/addMessage", payload |-> message])

(* The messages lists a caller may pass to sendChatMessage: the transcript *)
(* or any list of its own                                                  *)
MessagesArgs == {chat.messages, <<[role |-> "user", content |-> <<"Hi">>]>>}

(* store.dispatch(sendChatMessage({messages})): the pending action is      *)
(* reduced and the request carrying messages is left in flight, whether    *)
(* or not a chat request is in flight already.                             *)
DispatchSendChatMessage(messages) ==
  /\ nextId <= MaxDispatches
  /\ SetState(rootReducer(getState, PendingAction(sendChatMessage)))
  /\ inflight' = inflight \cup {[id |-> nextId, thunk |-> sendChatMessage, arg |-> messages]}
  /\ nextId' = nextId + 1
  /\ last' = [kind |-> "pending", thunk |-> sendChatMessage.name, id |-> nextId,
              value |-> Null]
  /\ UNCHANGED <<page, outside>>

handleClearChat == Reduce([type |-> "chat/clearChat"])

Next ==
  \/ \E thunk \in MarketThunks \cup PortfolioThunks : Dispatch(thunk)
  \/ \E op \in inflight : \E payload \in Responses(op.thunk) : Fulfill(op, payload)
  \/ \E op \in inflight : \E detail \in Details : Reject(op, detail)
  \/ ClearMarketError
  \/ \E p \in CurrentPortfolioPayloads : SetCurrentPortfolio(p)
  \/ ClearPortfolioError
  \/ ClearChatError
  \/ \E message \in MessagePayloads : DispatchAddMessage(message)
  \/ \E messages \in MessagesArgs : DispatchSendChatMessage(messages)
  \/ handleClearChat

Spec == Init /\ [][Next]_vars

(***************************************************************************)
(* The application: the router's pages, their effects and handlers         *)
(***************************************************************************)
(* location is the path of the page the router renders, "" before the      *)
(* first render.                                                           *)
Paths == {"/", "/chat", "/action-log", "/portfolio"}

(* The pages whose useEffect dispatches fetches; its dependencies are      *)
(* dispatch and portfolios.length                                          *)
FetchingPaths == {"/", "/action-log", "/portfolio"}

(* Faulty variant: Portfolio and ActionLog fetch the list on every run of  *)
(* their effect                                                            *)
Effect_alwaysFetches(path, portfolios) ==
  CASE path = "/" ->
         <<fetchMarketData, fetchMarketAnalysis, fetchPortfolios>> \o
         (IF Len(portfolios) > 0 THEN <<fetchPortfolioSummary>> ELSE <<>>)
    [] path \in {"/action-log", "/portfolio"} -> <<fetchPortfolios>>
    [] OTHER -> <<>>

(* The thunks the useEffect callback of the page at path dispatches, in    *)
(* order; portfolios is the list of the render that created the callback.  *)
Effect(path, portfolios) ==
  CASE path = "/" ->
         <<fetchMarketData, fetchMarketAnalysis, fetchPortfolios>> \o
         (IF Len(portfolios) > 0 THEN <<fetchPortfolioSummary>> ELSE <<>>)
    [] path \in {"/action-log", "/portfolio"} ->
         IF Len(portfolios) = 0 THEN <<fetchPortfolios>> ELSE <<>>
    [] OTHER -> <<>>

(* The store, the requests in flight and the next request number after     *)
(* the thunks are dispatched one after the other                           *)
RECURSIVE DispatchAll(_, _)
DispatchAll(app, thunks) ==
  IF thunks = <<>> THEN app
  ELSE DispatchAll(
         [state |-> rootReducer(app.state, PendingAction(Head(thunks))),
          inflight |-> app.inflight \cup
                         {[id |-> app.nextId, thunk |-> Head(thunks), arg |-> Null]},
          nextId |-> app.nextId + 1],
         Tail(thunks))

(* A callback dispatches the thunks, if no more than max requests are made *)
(* in all; the history is that of the last store action of the step.       *)
RunEffectUpTo(max, app, thunks, history) ==
  LET after == DispatchAll(app, thunks)
  IN /\ after.nextId - 1 <= max
     /\ SetState(after.state)
     /\ inflight' = after.inflight
     /\ nextId' = after.nextId
     /\ last' = IF thunks = <<>> THEN history
                ELSE [kind |-> "pending", thunk |-> thunks[Len(thunks)].name,
                      id |-> after.nextId - 1, value |-> Null]

RunEffect(app, thunks, history) == RunEffectUpTo(MaxRequests, app, thunks, history)

(* effects holds the runs of the mounted page's effect that a render has    *)
(* scheduled and that have not run yet, oldest first: each is the           *)
(* portfolios list of its render. A render schedules a run on mount and     *)
(* when portfolios.length differs from the previous render's. The run       *)
(* happens in a callback of its own, after the render; it happens before    *)
(* the next render and before the next user event is handled. The pages     *)
(* and the slices have nothing that keeps a thunk from dispatching its      *)
(* terminal action before the run.                                          *)
Mounted(path) == IF path \in FetchingPaths THEN <<portfolio.portfolios>> ELSE <<>>

(* Faulty variant: leaving a page aborts the requests in flight *)
handleNavigation_aborts(path) ==
  /\ path # location
  /\ effects = <<>>
  /\ location' = path
  /\ effects' = Mounted(path)
  /\ inflight' = {}
  /\ UNCHANGED <<market, portfolio, chat, nextId, last, outside>>

(* The user opens or navigates to path: the page left unmounts (its effect *)
(* has no cleanup), the page at path mounts and its first render schedules *)
(* its effect.                                                             *)
handleNavigation(path) ==
  /\ path # location
  /\ effects = <<>>
  /\ location' = path
  /\ effects' = Mounted(path)
  /\ UNCHANGED <<market, portfolio, chat, inflight, nextId, last, outside>>

(* The oldest scheduled run of the mounted page's effect: the callback      *)
(* dispatches its thunks, reading the portfolios list of its render.       *)
useEffectUpTo(max) ==
  /\ effects # <<>>
  /\ effects' = Tail(effects)
  /\ RunEffectUpTo(max, [state |-> getState, inflight |-> inflight, nextId |-> nextId],
                   Effect(location, Head(effects)), last)
  /\ UNCHANGED <<location, outside>>

useEffect == useEffectUpTo(MaxRequests)

(* Faulty variant: the page's effect is scheduled again after every        *)
(* terminal action that the portfolio slice reduces                        *)
Settle_schedulesAlways(op, action, history) ==
  LET state == rootReducer(getState, action)
      changed == op.thunk.slice = "portfolio"
  IN /\ op \in inflight
     /\ Len(effects) <= 1
     /\ SetState(state)
     /\ inflight' = inflight \ {op}
     /\ last' = history
     /\ effects' = IF location \in FetchingPaths /\ changed
                   THEN Append(effects, state.portfolio.portfolios)
                   ELSE effects
     /\ UNCHANGED <<nextId, location, outside>>

(* The thunk of a request in flight dispatches its terminal action; the    *)
(* mounted page renders the new state, and the render schedules the page's *)
(* effect when portfolios.length has changed. A run scheduled earlier is   *)
(* made before that render, so that at most one more is scheduled.         *)
Settle(op, action, history) ==
  LET state == rootReducer(getState, action)
      changed == Len(state.portfolio.portfolios) # Len(portfolio.portfolios)
  IN /\ op \in inflight
     /\ Len(effects) <= 1
     /\ SetState(state)
     /\ inflight' = inflight \ {op}
     /\ last' = history
     /\ effects' = IF location \in FetchingPaths /\ changed
                   THEN Append(effects, state.portfolio.portfolios)
                   ELSE effects
     /\ UNCHANGED <<nextId, location, outside>>

Fulfilled(op, payload) ==
  Settle(op, FulfilledAction(op.thunk, payload),
         [kind |-> "fulfilled", thunk |-> op.thunk.name, id |-> op.id,
          value |-> Logged(op.thunk, payload)])

Rejected(op, detail) ==
  Settle(op, RejectedAction(op.thunk, detail),
         [kind |-> "rejected", thunk |-> op.thunk.name, id |-> op.id,
          value |-> RejectValue(detail, op.thunk.fallback)])

(* Dashboard: the search field's query, dispatched when its trim is truthy *)
handleSearch(searchQuery) ==
  /\ location = "/"
  /\ effects = <<>>
  /\ Truthy(Trim(searchQuery))
  /\ RunEffect([state |-> getState, inflight |-> inflight, nextId |-> nextId],
               <<fetchMarketData>>, last)
  /\ UNCHANGED <<page, outside>>

(***************************************************************************)
(* AIChat page                                                             *)
(***************************************************************************)
Inputs == {<<>>, <<" ">>, <<"Hi">>, <<" ", "Hi", " ">>}

(* Faulty variant: the request carries the new message only *)
handleSendMessage_sendsOnlyNew(input) ==
  /\ Truthy(Trim(input))
  /\ LET userMessage == [role |-> "user", content |-> Trim(input)]
         added == rootReducer(getState, [type |-> "chat/addMessage", payload |-> userMessage])
     IN /\ SetState(rootReducer(added, PendingAction(sendChatMessage)))
        /\ inflight' = inflight \cup
             {[id |-> nextId, thunk |-> sendChatMessage, arg |-> <<userMessage>>]}
  /\ nextId' = nextId + 1
  /\ last' = [kind |-> "pending", thunk |-> sendChatMessage.name, id |-> nextId,
              value |-> Null]
  /\ UNCHANGED <<page, outside>>

(* The handler of the send button and of the Enter key: when the trimmed   *)
(* input is not empty it dispatches addMessage with the user's message and *)
(* then sendChatMessage with the rendered transcript followed by it.       *)
handleSendMessage(input) ==
  /\ Truthy(Trim(input))
  /\ LET userMessage == [role |-> "user", content |-> Trim(input)]
         added == rootReducer(getState, [type |-> "chat/addMessage", payload |-> userMessage])
     IN /\ SetState(rootReducer(added, PendingAction(sendChatMessage)))
        /\ inflight' = inflight \cup
             {[id |-> nextId, thunk |-> sendChatMessage,
               arg |-> Append(chat.messages, userMessage)]}
  /\ nextId' = nextId + 1
  /\ last' = [kind |-> "pending", thunk |-> sendChatMessage.name, id |-> nextId,
              value |-> Null]
  /\ UNCHANGED <<page, outside>>

(* Faulty variant: the send button stays enabled while a request is in    *)
(* flight                                                                  *)
SendEnabled_ignoresLoading(input) == Truthy(Trim(input))

(* The text field is disabled while chat.loading, the send button while    *)
(* chat.loading or while the trimmed input is empty                        *)
SendEnabled(input) == ~chat.loading /\ Truthy(Trim(input))

(* The user sends input from the page: the handler runs only through the   *)
(* enabled text field or button                                            *)
Send(input) ==
  /\ location = "/chat"
  /\ SendEnabled(input)
  /\ nextId <= MaxRequests
  /\ handleSendMessage(input)

(* The user clicks the clear button, which is never disabled *)
ClearChat ==
  /\ location = "/chat"
  /\ SetState(rootReducer(getState, [type |-> "chat/clearChat"]))
  /\ last' = [kind |-> "chat/clearChat", thunk |-> "", id |-> 0, value |-> Null]
  /\ UNCHANGED <<inflight, nextId, page, outside>>

NextApp ==
  \/ \E path \in Paths : handleNavigation(path)
  \/ useEffect
  \/ \E op \in inflight : \E payload \in Responses(op.thunk) : Fulfilled(op, payload)
  \/ \E op \in inflight : \E detail \in Details : Rejected(op, detail)
  \/ \E searchQuery \in Inputs : handleSearch(searchQuery)
  \/ \E input \in Inputs : Send(input)
  \/ ClearChat

SpecApp == Init /\ [][NextApp]_vars

(***************************************************************************)
(* The application under the scheduling model of the single-threaded       *)
(* cooperative event loop, in which control is given up at the network     *)
(* call only: a render and the run of the effect it scheduled are one      *)
(* turn of the loop, and the response of a request is handled in a turn    *)
(* of its own, when no run is pending.                                     *)
(***************************************************************************)
FlushedAtCommit == effects = <<>>

NextAtCommit ==
  \/ \E path \in Paths : handleNavigation(path)
  \/ useEffect
  \/ \E op \in inflight : \E payload \in Responses(op.thunk) :
       FlushedAtCommit /\ Fulfilled(op, payload)
  \/ \E op \in inflight : \E detail \in Details :
       FlushedAtCommit /\ Rejected(op, detail)
  \/ \E searchQuery \in Inputs : handleSearch(searchQuery)
  \/ \E input \in Inputs : Send(input)
  \/ ClearChat

SpecAtCommit == Init /\ [][NextAtCommit]_vars

(***************************************************************************)
(* The AIChat page, opened once                                            *)
(***************************************************************************)
OpenChat == location = "" /\ handleNavigation("/chat")

NextChat ==
  \/ OpenChat
  \/ \E input \in Inputs : Send(input)
  \/ ClearChat
  \/ \E op \in inflight : \E payload \in Responses(op.thunk) : Fulfilled(op, payload)
  \/ \E op \in inflight : \E detail \in Details : Rejected(op, detail)

SpecChat == Init /\ [][NextChat]_vars

(***************************************************************************)
(* The Dashboard, mounted once, with a backend whose portfolio list does   *)
(* not change                                                              *)
(***************************************************************************)
InitDashboard ==
  /\ market = marketInitialState
  /\ portfolio = portfolioInitialState
  /\ chat = chatInitialState
  /\ inflight = {}
  /\ nextId = 1
  /\ last = [kind |-> "init", thunk |-> "", id |-> 0, value |-> Null]
  /\ location = ""
  /\ effects = <<>>
  /\ backend \in PortfolioListPayloads
  /\ call = [state |-> "idle"]

(* response.data of the backend: the portfolio list is the backend's *)
BackendResponses(thunk) ==
  IF thunk = fetchPortfolios THEN {backend} ELSE Responses(thunk)

MountDashboard == location = "" /\ handleNavigation("/")

DashboardEffect == useEffectUpTo(MaxDashboardRequests)

DashboardFulfilled(op, payload) ==
  Settle(op, FulfilledAction(op.thunk, payload),
         [kind |-> "fulfilled", thunk |-> op.thunk.name, id |-> op.id,
          value |-> Logged(op.thunk, payload)])

DashboardRejected(op, detail) ==
  Settle(op, RejectedAction(op.thunk, detail),
         [kind |-> "rejected", thunk |-> op.thunk.name, id |-> op.id,
          value |-> RejectValue(detail, op.thunk.fallback)])

NextDashboard ==
  \/ MountDashboard
  \/ DashboardEffect
  \/ \E op \in inflight : \E payload \in BackendResponses(op.thunk) :
       DashboardFulfilled(op, payload)
  \/ \E op \in inflight : \E detail \in Details : DashboardRejected(op, detail)

SpecDashboard == InitDashboard /\ [][NextDashboard]_vars

(***************************************************************************)
(* Database helpers (api/database.ts): each awaits one request of the API  *)
(* client and returns or throws                                            *)
(***************************************************************************)
(* The collection, the cache key or the measurement of a call *)
Requests == {"prices", "positions", "signals"}

(* response.data of a request that succeeds: null or a value *)
ResponseData == {Null, Some("v1"), Some("v2"), Some("v3"), Some("v4")}

(* The error a request that fails throws *)
Failures ==
  {Some("Network Error"), Some("Request failed with status code 404"),
   Some("Request failed with status code 500")}

(* What the awaited request does: it resolves with a response whose data   *)
(* is value, or it throws value                                            *)
Outcomes ==
  {[ok |-> TRUE, value |-> data] : data \in ResponseData} \cup
  {[ok |-> FALSE, value |-> error] : error \in Failures}

Returned(value) == [kind |-> "returned", value |-> value]
Thrown(error) == [kind |-> "thrown", value |-> error]

fetchDocuments(collection, outcome) ==
  IF outcome.ok THEN Returned(outcome.value) ELSE Thrown(outcome.value)

(* Faulty variant: the failure is thrown on to the caller *)
getCachedData_rethrows(key, outcome) ==
  IF outcome.ok THEN Returned(outcome.value) ELSE Thrown(outcome.value)

getCachedData(key, outcome) ==
  IF outcome.ok THEN Returned(outcome.value) ELSE Returned(Null)

setCachedData(key, outcome) ==
  IF outcome.ok THEN Returned(outcome.value) ELSE Thrown(outcome.value)

fetchTimeSeriesData(measurement, outcome) ==
  IF outcome.ok THEN Returned(outcome.value) ELSE Thrown(outcome.value)

Helpers == {"fetchDocuments", "getCachedData", "setCachedData", "fetchTimeSeriesData"}

Helper(name, request, outcome) ==
  CASE name = "fetchDocuments" -> fetchDocuments(request, outcome)
    [] name = "getCachedData" -> getCachedData(request, outcome)
    [] name = "setCachedData" -> setCachedData(request, outcome)
    [] name = "fetchTimeSeriesData" -> fetchTimeSeriesData(request, outcome)

(* The message the catch branch writes with console.error *)
ErrorLog(name) ==
  CASE name = "fetchDocuments" -> "Error fetching documents:"
    [] name = "getCachedData" -> "Error getting cached data:"
    [] name = "setCachedData" -> "Error setting cached data:"
    [] name = "fetchTimeSeriesData" -> "Error fetching time series data:"

(* A caller calls a helper: its request is awaited *)
CallHelper(name, request) ==
  /\ call.state = "idle"
  /\ call' = [state |-> "awaiting", helper |-> name, request |-> request]
  /\ UNCHANGED <<market, portfolio, chat, inflight, nextId, last, page, backend>>

(* The request settles and the helper returns or throws *)
Respond(outcome) ==
  /\ call.state = "awaiting"
  /\ call' = [state |-> "settled", helper |-> call.helper, request |-> call.request,
              outcome |-> outcome,
              result |-> Helper(call.helper, call.request, outcome),
              logged |-> IF outcome.ok THEN Null ELSE Some(ErrorLog(call.helper))]
  /\ UNCHANGED <<market, portfolio, chat, inflight, nextId, last, page, backend>>

NextDatabase ==
  \/ \E name \in Helpers : \E request \in Requests : CallHelper(name, request)
  \/ \E outcome \in Outcomes : Respond(outcome)

SpecDatabase == Init /\ [][NextDatabase]_vars

(***************************************************************************)
(* Properties                                                              *)
(***************************************************************************)
(* The fetch thunks, whose fulfilled case stores the payload in a field *)
DataThunks == MarketThunks \cup PortfolioFetchThunks

ThunkNamed(name) == CHOOSE thunk \in Thunks : thunk.name = name

(* The data field a fetch thunk's fulfilled case writes, read in state *)
Target(state, thunk) ==
  CASE thunk = fetchMarketData -> state.market.marketData
    [] thunk = fetchMarketNews -> state.market.marketNews
    [] thunk = fetchMarketAnalysis -> state.market.marketAnalysis
    [] thunk = fetchPortfolios -> state.portfolio.portfolios
    [] thunk = fetchPortfolio -> state.portfolio.currentPortfolio
    [] thunk = fetchPortfolioSummary -> state.portfolio.portfolioSummary
    [] thunk = fetchPortfolioHistory -> state.portfolio.portfolioHistory
    [] thunk = analyzePortfolioRisk -> state.portfolio.riskAnalysis
    [] thunk = optimizePortfolio -> state.portfolio.optimizationRecommendations

(* The store state after one more action of the thunk is reduced *)
AfterPending(state, thunk) == rootReducer(state, PendingAction(thunk))
AfterFulfilled(state, thunk, payload) == rootReducer(state, FulfilledAction(thunk, payload))
AfterRejected(state, thunk, detail) == rootReducer(state, RejectedAction(thunk, detail))

LastThunk == ThunkNamed(last.thunk)
LastMessage == chat.messages[Len(chat.messages)]

(* C1: last-settled-wins. When a fetch B is fulfilled while an older fetch *)
(* A of the same thunk is still in flight, the thunk's data field holds    *)
(* B's payload, and A's later fulfilment overwrites it with A's payload;   *)
(* likewise A's fulfilment is stored while the newer B is still pending:   *)
(* no fulfilment is discarded as stale.                                    *)
C1_LastSettledWins ==
  /\ \A a \in inflight :
       (/\ last.kind = "fulfilled"
        /\ a.thunk \in DataThunks
        /\ last.thunk = a.thunk.name
        /\ last.id > a.id)
       => /\ Target(getState, a.thunk) = last.value
          /\ \A p \in Responses(a.thunk) :
               Target(AfterFulfilled(getState, a.thunk, p), a.thunk) = p
  /\ \A b \in inflight :
       (/\ last.kind = "fulfilled"
        /\ b.thunk \in DataThunks
        /\ last.thunk = b.thunk.name
        /\ last.id < b.id)
       => Target(getState, b.thunk) = last.value

(* B (dispatched second) was fulfilled first, A is still in flight *)
C1_Witness ==
  /\ last = [kind |-> "fulfilled", thunk |-> "fetchMarketData", id |-> 2,
             value |-> Some("md2")]
  /\ inflight = {[id |-> 1, thunk |-> fetchMarketData, arg |-> Null]}
  /\ market.marketData = Some("md2")
  /\ Target(AfterFulfilled(getState, fetchMarketData, Some("md1")), fetchMarketData)
       = Some("md1")

(* C2: while an operation is in flight its slice's loading flag is true *)
C2_LoadingWhileInFlight ==
  \A op \in inflight : getState[op.thunk.slice].loading = TRUE

(* C3: right after a fulfilled action the slice's error is empty and its   *)
(* loading flag is false                                                   *)
C3_FulfilledClearsError ==
  last.kind = "fulfilled"
  => /\ getState[LastThunk.slice].error = Null
     /\ getState[LastThunk.slice].loading = FALSE

(* C4: the fulfilment of a fetch in flight replaces the thunk's data field *)
(* with exactly the payload, whatever the field held before.               *)
C4_FulfilledReplaces ==
  /\ \A op \in inflight :
       op.thunk \in DataThunks
       => \A p \in Responses(op.thunk) :
            Target(AfterFulfilled(getState, op.thunk, p), op.thunk) = p
  /\ (last.kind = "fulfilled" /\ LastThunk \in DataThunks)
     => Target(getState, LastThunk) = last.value

(* The list fetched second replaced the one fetched first *)
C4_Witness ==
  /\ last = [kind |-> "fulfilled", thunk |-> "fetchPortfolios", id |-> 2,
             value |-> <<"pfA">>]
  /\ portfolio.portfolios = <<"pfA">>
  /\ inflight = {}

(* C5: the rejection of a market or portfolio operation in flight sets     *)
(* loading to false and error to the rejection's message and changes       *)
(* nothing else of the slice.                                              *)
C5_RejectedKeepsData ==
  /\ \A op \in inflight :
       op.thunk # sendChatMessage
       => \A d \in Details :
            AfterRejected(getState, op.thunk, d)[op.thunk.slice]
              = [getState[op.thunk.slice] EXCEPT
                   !.loading = FALSE,
                   !.error = Some(RejectValue(d, op.thunk.fallback))]
  /\ (last.kind = "rejected" /\ LastThunk # sendChatMessage)
     => /\ getState[LastThunk.slice].loading = FALSE
        /\ getState[LastThunk.slice].error = Some(last.value)

(* A fetch was rejected after an earlier one had stored its payload *)
C5_Witness ==
  /\ last = [kind |-> "rejected", thunk |-> "fetchMarketData", id |-> 2,
             value |-> <<"timeout">>]
  /\ market.marketData = Some("md1")
  /\ market.error = Some(<<"timeout">>)
  /\ market.loading = FALSE

(* C6: the rejection of a chat send in flight sets loading to false, error *)
(* to the reason r and appends the one assistant message "Sorry, I         *)
(* encountered an error: " followed by r; the rejection of a market or     *)
(* portfolio operation in flight alters no data field.                     *)
C6_ChatRejected ==
  /\ \A op \in inflight : \A d \in Details :
       LET after == AfterRejected(getState, op.thunk, d)
           r == RejectValue(d, op.thunk.fallback)
       IN IF op.thunk = sendChatMessage
          THEN after.chat
                 = [chat EXCEPT
                      !.loading = FALSE,
                      !.error = Some(r),
                      !.messages = chat.messages \o
                        <<[role |-> "assistant", content |-> ErrorPrefix \o r]>>]
          ELSE /\ [after.market EXCEPT !.loading = FALSE, !.error = Null]
                    = [market EXCEPT !.loading = FALSE, !.error = Null]
               /\ [after.portfolio EXCEPT !.loading = FALSE, !.error = Null]
                    = [portfolio EXCEPT !.loading = FALSE, !.error = Null]
               /\ after.chat = chat
  /\ (last.kind = "rejected" /\ LastThunk = sendChatMessage)
     => /\ chat.loading = FALSE
        /\ chat.error = Some(last.value)
        /\ chat.messages # <<>>
        /\ LastMessage = [role |-> "assistant", content |-> ErrorPrefix \o last.value]

(* "Hi" was sent and the request failed with the reason "timeout" *)
C6_Witness ==
  /\ last.kind = "rejected"
  /\ last.thunk = "sendChatMessage"
  /\ chat.error = Some(<<"timeout">>)
  /\ chat.messages =
       <<[role |-> "user", content |-> <<"Hi">>],
         [role |-> "assistant",
          content |-> <<"Sorry, I encountered an error: ", "timeout">>]>>

(* C7: dispatching a thunk sets loading to true and error to empty and     *)
(* leaves every other field of the slice, the transcript included, as it   *)
(* was.                                                                    *)
C7_DispatchKeepsData ==
  /\ \A thunk \in Thunks :
       AfterPending(getState, thunk)[thunk.slice]
         = [getState[thunk.slice] EXCEPT !.loading = TRUE, !.error = Null]
  /\ last.kind = "pending"
     => /\ getState[LastThunk.slice].loading = TRUE
        /\ getState[LastThunk.slice].error = Null

(* A second fetch is pending while the first fetch's payload is readable *)
C7_Witness ==
  /\ last = [kind |-> "pending", thunk |-> "fetchMarketData", id |-> 2, value |-> Null]
  /\ market.marketData = Some("md1")
  /\ market.loading = TRUE
  /\ market.error = Null

(* C8: chat happy path. A send appends the user's message to the          *)
(* transcript before the request resolves, the request carrying that       *)
(* transcript; the fulfilment appends exactly one assistant message with   *)
(* the response text after it.                                             *)
C8_ChatHappyPath ==
  /\ \A op \in inflight :
       op.thunk = sendChatMessage
       => /\ op.arg # <<>>
          /\ \E input \in Inputs :
               /\ Truthy(Trim(input))
               /\ op.arg[Len(op.arg)] = [role |-> "user", content |-> Trim(input)]
          /\ (last.kind = "pending" /\ last.id = op.id) => chat.messages = op.arg
          /\ \A resp \in ChatResponses :
               AfterFulfilled(getState, sendChatMessage, resp).chat.messages
                 = chat.messages \o <<[role |-> "assistant", content |-> resp.response]>>
  /\ (last.kind = "fulfilled" /\ LastThunk = sendChatMessage)
     => /\ chat.messages # <<>>
        /\ LastMessage = [role |-> "assistant", content |-> last.value]

(* "Hi" was sent from the empty transcript and answered with "Hello" *)
C8_Witness ==
  /\ last.kind = "fulfilled"
  /\ last.thunk = "sendChatMessage"
  /\ chat.messages =
       <<[role |-> "user", content |-> <<"Hi">>],
         [role |-> "assistant", content |-> <<"Hello">>]>>

(* C9: clearing the chat resets the transcript to empty and the error to   *)
(* empty and does not touch a request in flight: loading is left as it is  *)
(* and the request's later resolution is applied to the cleared            *)
(* transcript.                                                             *)
C9_ClearResetsError ==
  LET after == rootReducer(getState, [type |-> "chat/clearChat"])
  IN /\ after.chat.messages = <<>>
     /\ after.chat.error = Null
     /\ after.chat.loading = chat.loading
     /\ \A op \in inflight :
          op.thunk = sendChatMessage
          => /\ \A resp \in ChatResponses :
                  AfterFulfilled(after, sendChatMessage, resp).chat.messages
                    = <<[role |-> "assistant", content |-> resp.response]>>
             /\ \A d \in Details :
                  Len(AfterRejected(after, sendChatMessage, d).chat.messages) = 1

(* C10: idempotence of fetch. Where a fetch is in flight, the fetch         *)
(* dispatched twice and fulfilled twice with the same payload, one after   *)
(* the other or overlapping, leaves the store as a single dispatch and     *)
(* fulfilment does.                                                        *)
C10_FetchIdempotent ==
  /\ \A op \in inflight :
       op.thunk \in DataThunks
       => \A p \in Responses(op.thunk) :
            LET thunk == op.thunk
                pending == AfterPending(getState, thunk)
                once == AfterFulfilled(pending, thunk, p)
                again == AfterFulfilled(AfterPending(once, thunk), thunk, p)
                overlapping ==
                  AfterFulfilled(
                    AfterFulfilled(AfterPending(pending, thunk), thunk, p),
                    thunk, p)
            IN /\ again = once
               /\ overlapping = once
  /\ \A op \in inflight :
       (/\ last.kind = "fulfilled"
        /\ op.thunk \in DataThunks
        /\ last.thunk = op.thunk.name)
       => AfterFulfilled(getState, op.thunk, last.value)[op.thunk.slice]
            = [getState[op.thunk.slice] EXCEPT !.loading = FALSE]

(* The same fetch was dispatched twice; one is fulfilled, one in flight *)
C10_Witness ==
  /\ last = [kind |-> "fulfilled", thunk |-> "fetchPortfolioHistory", id |-> 1,
             value |-> <<"h1">>]
  /\ inflight = {[id |-> 2, thunk |-> fetchPortfolioHistory, arg |-> Null]}
  /\ portfolio.portfolioHistory = <<"h1">>

(* Steps, told by the history of the store action they reduce *)
Terminal == last' # last /\ last'.kind \in {"fulfilled", "rejected"}
Pending == last' # last /\ last'.kind = "pending"
StepThunk == ThunkNamed(last'.thunk)

(* C11: a fulfilled executeTrade only sets loading to false: the cached    *)
(* portfolio data, the other slices and the operations in flight are left  *)
(* as they were and no fetch is dispatched.                                *)
C11_TradeKeepsCache ==
  [][(Terminal /\ last'.kind = "fulfilled" /\ last'.thunk = "executeTrade")
     => /\ portfolio' = [portfolio EXCEPT !.loading = FALSE]
        /\ market' = market
        /\ chat' = chat
        /\ inflight' \subseteq inflight
        /\ nextId' = nextId]_vars

(* A trade was fulfilled after the portfolio list had been fetched: the    *)
(* list is still the one fetched before the trade                          *)
C11_Witness ==
  /\ last.kind = "fulfilled"
  /\ last.thunk = "executeTrade"
  /\ portfolio.portfolios = <<"pfA">>
  /\ portfolio.loading = FALSE
  /\ inflight = {}

(* Lifecycle states of a slice *)
IsPending(slice) == slice.loading = TRUE
IsSucceeded(slice) == slice.loading = FALSE /\ slice.error = Null
IsFailed(slice) == slice.loading = FALSE /\ slice.error # Null

(* C12: a fulfilment takes its slice from Pending to Succeeded, a          *)
(* rejection from Pending to Failed and a dispatch to Pending; every       *)
(* terminal resolution is applied where loading is true.                   *)
C12_Lifecycle ==
  [][/\ (Terminal /\ last'.kind = "fulfilled")
        => /\ IsPending(getState[StepThunk.slice])
           /\ IsSucceeded(getState'[StepThunk.slice])
     /\ (Terminal /\ last'.kind = "rejected")
        => /\ IsPending(getState[StepThunk.slice])
           /\ IsFailed(getState'[StepThunk.slice])
     /\ Pending => IsPending(getState'[StepThunk.slice])]_vars

(* C13: a terminal action settles exactly one operation in flight, its     *)
(* own, which is in flight no longer; no other step takes an operation     *)
(* out of flight, and an operation put in flight has a number never used   *)
(* before, so that no operation settles twice.                             *)
C13_OneTerminalAction ==
  [][/\ Terminal
        => \E op \in inflight :
             /\ op.id = last'.id
             /\ op.thunk.name = last'.thunk
             /\ inflight' = inflight \ {op}
     /\ ~Terminal => inflight \subseteq inflight'
     /\ \A op \in inflight' \ inflight : op.id = nextId /\ nextId' = nextId + 1
     /\ \A op \in inflight : op.id < nextId
     /\ Cardinality(inflight' \ inflight) <= 1]_vars

(* Two fetches were dispatched; the first was fulfilled, then the second   *)
(* was rejected, and nothing is in flight any more                         *)
C13_Witness ==
  /\ last = [kind |-> "rejected", thunk |-> "fetchMarketNews", id |-> 2,
             value |-> <<"Failed to fetch market news">>]
  /\ market.marketNews = Some("news1")
  /\ nextId = 3
  /\ inflight = {}

(* C14: the transcript is append-only between clears: a step leaves it     *)
(* unchanged, or appends one message at its end (addMessage, a fulfilled   *)
(* or a rejected chat request), or empties it (clearChat).                 *)
C14_AppendOnly ==
  [][\/ chat.messages' = chat.messages
     \/ /\ Len(chat.messages') = Len(chat.messages) + 1
        /\ SubSeq(chat.messages', 1, Len(chat.messages)) = chat.messages
        /\ \/ last'.kind = "chat/addMessage"
           \/ Terminal /\ last'.thunk = "sendChatMessage"
     \/ /\ chat.messages' = <<>>
        /\ last'.kind = "chat/clearChat"]_vars

(* A response was appended after the user's message, which is still first *)
C14_Witness ==
  /\ Len(chat.messages) = 2
  /\ chat.messages[1] = [role |-> "user", content |-> <<"Hi">>]
  /\ chat.messages[2].role = "assistant"
  /\ chat.actions # <<>>

(* The roles of the transcript alternate, the first being role *)
Alternates(messages, role) ==
  \A i \in 1..Len(messages) :
    messages[i].role = IF (i % 2 = 1) = (role = "user") THEN "user" ELSE "assistant"

(* C15: in a run through the AIChat page without a rejected chat request   *)
(* the transcript alternates user, assistant, user, ...: every step that   *)
(* is not a rejection keeps the alternation.                               *)
C15_HappyPathAlternates ==
  [][(/\ Alternates(chat.messages, "user")
      /\ ~(Terminal /\ last'.kind = "rejected"))
     => Alternates(chat.messages', "user")]_vars

(* The synthetic message of a failed send *)
IsErrorMessage(m) ==
  m.role = "assistant" /\ m.content # <<>> /\ m.content[1] = ErrorPrefix[1]

ConsecutiveAssistants(messages) ==
  \E i \in 1..(Len(messages) - 1) :
    messages[i].role = "assistant" /\ messages[i + 1].role = "assistant"

(* C16: a failed send leaves its synthetic assistant message at the end of *)
(* the transcript, and the resolution of a send dispatched again on that   *)
(* transcript, fulfilled or rejected, appends another assistant message    *)
(* right after it: the transcript then holds two consecutive assistant     *)
(* entries, the last two.                                                  *)
C16_RetryConsecutive ==
  [][(/\ Terminal
      /\ last'.thunk = "sendChatMessage"
      /\ chat.messages # <<>>
      /\ IsErrorMessage(LastMessage))
     => LET n == Len(chat.messages')
        IN /\ n = Len(chat.messages) + 1
           /\ SubSeq(chat.messages', 1, n - 1) = chat.messages
           /\ chat.messages'[n].role = "assistant"
           /\ ConsecutiveAssistants(chat.messages')]_vars

(* A send failed and left its synthetic message; the send was dispatched   *)
(* again and failed too                                                    *)
C16_Witness ==
  /\ Len(chat.messages) = 2
  /\ IsErrorMessage(chat.messages[1])
  /\ IsErrorMessage(chat.messages[2])
  /\ last.kind = "rejected"
  /\ last.thunk = "sendChatMessage"
  /\ last.id = 2
  /\ inflight = {}

(* C17: the messages list a send puts in its request is the store's       *)
(* transcript right after the user's message was appended: the transcript  *)
(* before the send, synthetic error messages included, and the new user    *)
(* message last.                                                           *)
C17_PayloadIsTranscript ==
  [][(Pending /\ last'.thunk = "sendChatMessage")
     => \E op \in inflight' \ inflight :
          /\ op.id = last'.id
          /\ op.arg = chat.messages'
          /\ SubSeq(op.arg, 1, Len(op.arg) - 1) = chat.messages
          /\ op.arg[Len(op.arg)].role = "user"
          /\ \E input \in Inputs : op.arg[Len(op.arg)].content = Trim(input)]_vars

(* The retry after a failed send is in flight: its payload holds the       *)
(* first message, the synthetic error message and the new message          *)
C17_Witness ==
  /\ \E op \in inflight :
       /\ op.thunk = sendChatMessage
       /\ Len(op.arg) = 3
       /\ IsErrorMessage(op.arg[2])
       /\ op.arg = chat.messages
  /\ last.kind = "pending"

(* The slice an action belongs to, told by the history of the step *)
StepSlice ==
  CASE last'.thunk # "" -> StepThunk.slice
    [] last'.kind = "market/clearMarketError" -> "market"
    [] last'.kind \in {"portfolio/setCurrentPortfolio", "portfolio/clearPortfolioError"}
         -> "portfolio"
    [] last'.kind \in {"chat/addMessage", "chat/clearChat", "chat/clearChatError"}
         -> "chat"

(* C18: slice isolation: a step that reduces an action of one slice leaves *)
(* the subtrees of the other two slices unchanged.                         *)
C18_SliceIsolation ==
  [][last' # last
     => \A slice \in {"portfolio", "market", "chat"} :
          slice # StepSlice => getState'[slice] = getState[slice]]_vars

(* The portfolio list was stored while the market slice keeps its error    *)
(* and the chat slice is untouched                                         *)
C18_Witness ==
  /\ last.kind = "fulfilled"
  /\ last.thunk = "fetchPortfolios"
  /\ portfolio.portfolios = <<"pfA">>
  /\ market.error = Some(<<"timeout">>)
  /\ market.loading = FALSE
  /\ chat = chatInitialState

(* C19: a dispatch of a thunk puts exactly one new request in flight,      *)
(* whether or not a request of the same thunk is in flight already, and a  *)
(* rejection takes its request out of flight and issues none again.        *)
C19_NoDedupNoRetry ==
  [][/\ Pending
        => /\ Cardinality(inflight') = Cardinality(inflight) + 1
           /\ \E op \in inflight' \ inflight :
                op.id = last'.id /\ op.thunk = StepThunk
     /\ (Terminal /\ last'.kind = "rejected")
        => /\ Cardinality(inflight') = Cardinality(inflight) - 1
           /\ inflight' \subseteq inflight
           /\ nextId' = nextId]_vars

(* The same fetch was dispatched twice and both requests are in flight *)
C19_Witness ==
  inflight = {[id |-> 1, thunk |-> fetchPortfolios, arg |-> Null],
              [id |-> 2, thunk |-> fetchPortfolios, arg |-> Null]}

(* C20: no cancellation. Navigating to another page leaves every request   *)
(* in flight, and a terminal action is applied whatever page is mounted:   *)
(* a fulfilled fetch stores its payload, a rejection sets loading to false *)
(* and error to its message.                                               *)
C20_NoCancellation ==
  [][/\ location' # location => inflight \subseteq inflight'
     /\ Terminal
        => LET thunk == StepThunk
           IN /\ \E op \in inflight : op.id = last'.id /\ op \notin inflight'
              /\ (last'.kind = "fulfilled" /\ thunk \in DataThunks)
                 => Target(getState', thunk) = last'.value
              /\ last'.kind = "rejected"
                 => /\ getState'[thunk.slice].loading = FALSE
                    /\ getState'[thunk.slice].error = Some(last'.value)]_vars

(* The Dashboard's fetch of the market data was fulfilled after the user   *)
(* had left the Dashboard for the chat page                                *)
C20_Witness ==
  /\ location = "/chat"
  /\ last.kind = "fulfilled"
  /\ last.thunk = "fetchMarketData"
  /\ market.marketData = Some("md1")
  /\ \E op \in inflight : op.thunk = fetchMarketAnalysis

Slices == {"portfolio", "market", "chat"}

(* The type of the slice's action that clears its error *)
ClearErrorType(slice) ==
  CASE slice = "market" -> "market/clearMarketError"
    [] slice = "portfolio" -> "portfolio/clearPortfolioError"
    [] slice = "chat" -> "chat/clearChatError"

(* C21 as stated: a slice's error becomes empty again only through the     *)
(* slice's clear action                                                    *)
C21_OnlyClearAction ==
  [][\A slice \in Slices :
       (getState[slice].error # Null /\ getState'[slice].error = Null)
       => last'.kind = ClearErrorType(slice)]_vars

(* C21 as amended: a slice's error becomes empty again only through the    *)
(* slice's clear action or through the pending action of a thunk of that   *)
(* slice; no terminal action, no action of another slice and no other      *)
(* plain action empties it.                                                *)
C21_ClearOrDispatch ==
  [][\A slice \in Slices :
       (getState[slice].error # Null /\ getState'[slice].error = Null)
       => \/ last'.kind = ClearErrorType(slice)
          \/ Pending /\ StepThunk.slice = slice]_vars

(* After a rejected market fetch, a new fetch of the market data is        *)
(* pending and the error is empty again                                    *)
C21_Witness ==
  /\ last = [kind |-> "pending", thunk |-> "fetchMarketData", id |-> 2, value |-> Null]
  /\ inflight = {[id |-> 2, thunk |-> fetchMarketData, arg |-> Null]}
  /\ market = [marketInitialState EXCEPT !.loading = TRUE]
  /\ portfolio = portfolioInitialState
  /\ chat = chatInitialState

(* C22: the message a rejection stores in error is the failure's detail    *)
(* when that is present and truthy, and the thunk's fallback string        *)
(* otherwise; it is never empty.                                           *)
C22_RejectionMessage ==
  /\ \A op \in inflight :
       LET slice == op.thunk.slice
           stored(detail) == AfterRejected(getState, op.thunk, detail)[slice].error
       IN /\ stored(Null) = Some(op.thunk.fallback)
          /\ stored(Some(<<>>)) = Some(op.thunk.fallback)
          /\ stored(Some(<<"timeout">>)) = Some(<<"timeout">>)
          /\ \A detail \in Details : Truthy(stored(detail)[1])
  /\ fetchMarketData.fallback = <<"Failed to fetch market data">>
  /\ sendChatMessage.fallback = <<"Failed to send message">>
  /\ last.kind = "rejected"
     => /\ getState[LastThunk.slice].error = Some(last.value)
        /\ Truthy(last.value)
        /\ last.value \in {LastThunk.fallback, <<"timeout">>}

(* A trade failed without a detail: error is the thunk's fallback string *)
C22_Witness ==
  /\ last.kind = "rejected"
  /\ last.thunk = "executeTrade"
  /\ portfolio.error = Some(<<"Failed to execute trade">>)

(* C23: where no operation of a slice is in flight, the slice's loading    *)
(* flag is false.                                                          *)
C23_IdleNotLoading ==
  \A slice \in Slices :
    (\A op \in inflight : op.thunk.slice # slice) => getState[slice].loading = FALSE

(* Two portfolio operations were dispatched together and both have         *)
(* settled, the one fulfilled, the other rejected                          *)
C23_Witness ==
  /\ inflight = {}
  /\ nextId = 3
  /\ portfolio.portfolioSummary = Some("sumA")
  /\ portfolio.error = Some(<<"Failed to analyze portfolio risk">>)
  /\ portfolio.loading = FALSE

(* The name of the field a thunk's fulfilled case writes; executeTrade     *)
(* writes none                                                             *)
TargetField(thunk) ==
  CASE thunk = fetchMarketData -> "marketData"
    [] thunk = fetchMarketNews -> "marketNews"
    [] thunk = fetchMarketAnalysis -> "marketAnalysis"
    [] thunk = fetchPortfolios -> "portfolios"
    [] thunk = fetchPortfolio -> "currentPortfolio"
    [] thunk = fetchPortfolioSummary -> "portfolioSummary"
    [] thunk = fetchPortfolioHistory -> "portfolioHistory"
    [] thunk = analyzePortfolioRisk -> "riskAnalysis"
    [] thunk = optimizePortfolio -> "optimizationRecommendations"
    [] OTHER -> ""

(* C24: a terminal action of a market or portfolio thunk changes at most   *)
(* loading, error and the thunk's own data field, a rejection no data      *)
(* field at all; setCurrentPortfolio changes currentPortfolio only.        *)
C24_TerminalFrame ==
  [][/\ (Terminal /\ StepThunk # sendChatMessage)
        => LET before == getState[StepThunk.slice]
               after == getState'[StepThunk.slice]
           IN \A f \in DOMAIN before \ {"loading", "error"} :
                after[f] # before[f]
                => f = TargetField(StepThunk) /\ last'.kind = "fulfilled"
     /\ last'.kind = "portfolio/setCurrentPortfolio"
        => \A f \in DOMAIN portfolio \ {"currentPortfolio"} :
             portfolio'[f] = portfolio[f]]_vars

(* The market data was stored while the news fetched before stays *)
C24_Witness ==
  /\ last = [kind |-> "fulfilled", thunk |-> "fetchMarketData", id |-> 2,
             value |-> Some("md2")]
  /\ market.marketData = Some("md2")
  /\ market.marketNews = Some("news1")
  /\ market.marketAnalysis = Null

ChatInFlight == {op \in inflight : op.thunk = sendChatMessage}

(* C25: through the AIChat page at most one chat request is in flight:     *)
(* while one is, chat.loading is true, also after clearChat and after      *)
(* leaving or re-entering the page, and no input enables the send.         *)
C25_OneSendInFlight ==
  /\ Cardinality(ChatInFlight) <= 1
  /\ ChatInFlight # {}
     => /\ chat.loading = TRUE
        /\ \A input \in Inputs : ~SendEnabled(input)

(* A message was sent, the chat was cleared and the page left while the    *)
(* request is in flight                                                    *)
C25_Witness ==
  /\ location = "/portfolio"
  /\ Cardinality(ChatInFlight) = 1
  /\ chat.messages = <<>>
  /\ chat.loading = TRUE

(* The thunks of the requests a step puts in flight *)
Dispatched == {op.thunk : op \in inflight' \ inflight}

(* C27: where a render and the run of its effect are one turn of the event  *)
(* loop, the Portfolio and the ActionLog page put a request in flight only  *)
(* in a run of their effect, which is scheduled on mount or when the        *)
(* length of the list changed, and only where the store's portfolios list   *)
(* is empty when the effect runs; the request is the one fetchPortfolios.   *)
(* While the store's list is non-empty neither page puts a request in       *)
(* flight.                                                                  *)
C27_FetchOnlyWhenEmpty ==
  [][(location \in {"/portfolio", "/action-log"})
     => /\ inflight' \ inflight # {}
           => /\ Len(portfolio.portfolios) = 0
              /\ effects # <<>>
              /\ effects' = <<>>
              /\ Cardinality(inflight' \ inflight) = 1
              /\ Dispatched = {fetchPortfolios}
        /\ Len(portfolio.portfolios) > 0 => inflight' \subseteq inflight
        /\ effects' # <<>>
           => \/ location' # location
              \/ Len(portfolio'.portfolios) # Len(portfolio.portfolios)]_vars

(* The ActionLog page mounted with an empty list and fetched it; the list   *)
(* arrived, the effect ran again on the changed length and dispatched       *)
(* nothing: one request was made in all                                     *)
C27_Witness ==
  /\ location = "/action-log"
  /\ portfolio.portfolios = <<"pfA">>
  /\ last.kind = "fulfilled"
  /\ last.thunk = "fetchPortfolios"
  /\ last.id = 1
  /\ inflight = {}
  /\ effects = <<>>
  /\ nextId = 2

(* C26: the Dashboard's effect quiesces. With a backend whose portfolio    *)
(* list does not change, one mount makes at most two rounds of requests:   *)
(* three requests in all when the list is empty, three and then four when  *)
(* it is not. A run of the effect is scheduled on mount and otherwise only *)
(* by the step that stores a fetched list whose length differs from the    *)
(* stored one's; requests are made by a run of the effect only, with       *)
(* fetchPortfolioSummary only when the list of its render is non-empty; a  *)
(* rejection schedules no run.                                             *)
C26_DashboardQuiesces ==
  /\ [](nextId - 1 <= IF backend = <<>> THEN 3 ELSE 7)
  /\ [][/\ Len(effects') > Len(effects)
           => \/ location = "" /\ effects' = <<portfolio.portfolios>>
              \/ /\ \E op \in inflight \ inflight' : op.thunk = fetchPortfolios
                 /\ last'.kind = "fulfilled"
                 /\ Len(portfolio'.portfolios) # Len(portfolio.portfolios)
                 /\ portfolio'.portfolios = backend
                 /\ effects' = Append(effects, backend)
        /\ Dispatched # {}
           => /\ effects # <<>>
              /\ effects' = Tail(effects)
              /\ Dispatched =
                   {fetchMarketData, fetchMarketAnalysis, fetchPortfolios} \cup
                   (IF Head(effects) # <<>> THEN {fetchPortfolioSummary} ELSE {})]_vars

(* Both rounds were made and all seven requests have settled *)
C26_Witness ==
  /\ location = "/"
  /\ backend = <<"pfA">>
  /\ portfolio.portfolios = <<"pfA">>
  /\ portfolio.portfolioSummary # Null
  /\ nextId = 8
  /\ inflight = {}
  /\ effects = <<>>

(* C28: the actions list grows by the actions_taken of each fulfilled chat *)
(* response, in order: a response with actions_taken appends its entries   *)
(* at the end, a response without and a rejection leave the list as it     *)
(* is, clearChat empties it, and no other step changes it.                 *)
C28_ActionsConcatenated ==
  [][/\ (Terminal /\ last'.kind = "fulfilled" /\ last'.thunk = "sendChatMessage")
        => \E resp \in ChatResponses :
             /\ resp.response = last'.value
             /\ chat.actions' =
                  IF resp.actions_taken = Null THEN chat.actions
                  ELSE chat.actions \o resp.actions_taken[1]
     /\ last'.kind = "chat/clearChat" => chat.actions' = <<>>
     /\ (/\ ~(Terminal /\ last'.kind = "fulfilled" /\ last'.thunk = "sendChatMessage")
         /\ last'.kind # "chat/clearChat")
        => chat.actions' = chat.actions]_vars

(* Two responses with actions_taken were stored one after the other *)
C28_Witness ==
  /\ chat.actions = <<"rebalance", "rebalance">>
  /\ Len(chat.messages) = 2
  /\ chat.messages[1] = [role |-> "assistant", content |-> <<"Done">>]
  /\ inflight = {}

(* C29: on success each of the four database helpers returns the           *)
(* response's data unchanged; on a failure getCachedData returns null, as  *)
(* it does for a response whose data is null, and fetchDocuments,          *)
(* setCachedData and fetchTimeSeriesData throw the failure they caught.    *)
C29_DatabaseHelpers ==
  call.state = "settled"
  => /\ call.outcome.ok => call.result = Returned(call.outcome.value)
     /\ (~call.outcome.ok /\ call.helper = "getCachedData")
        => /\ call.result = Returned(Null)
           /\ call.result =
                getCachedData(call.request, [ok |-> TRUE, value |-> Null])
     /\ (~call.outcome.ok /\ call.helper # "getCachedData")
        => call.result = Thrown(call.outcome.value)

(* getCachedData was called and its request failed: it returned null *)
C29_Witness ==
  /\ call.state = "settled"
  /\ call.helper = "getCachedData"
  /\ call.outcome = [ok |-> FALSE, value |-> Some("Network Error")]
  /\ call.result = [kind |-> "returned", value |-> Null]

====
